---- MODULE Spec2Model ----
(***************************************************************************)
(* A model of the IniFile / Section classes (the TypeScript rewrite of     *)
(* Dolphin's IniFile.cpp).                                                 *)
(*                                                                         *)
(* Strings are sequences of one-character strings, so that parseLine, the  *)
(* header scan of load and the text written by save are computed character *)
(* by character.  Section objects live in a heap (objs) and are named by   *)
(* references, because the code hands out references: getOrCreateSection   *)
(* returns the Section object itself, and getKeys returns the keysOrder    *)
(* array of the Section itself.                                            *)
(***************************************************************************)
EXTENDS Integers, Sequences, FiniteSets, TLC

VARIABLES
  sections,  \* IniFile.sections: sequence of references to Section objects
  objs,      \* heap of Section objects: reference -> [name, keysOrder, lines, values]
  ld,        \* per load call in progress: its locals (current_section, first_line, ...)
  keysRet,   \* the array the caller got from its latest getKeys call
  issued,    \* per name: the Section the latest getOrCreateSection call returned,
             \* whether a load without keep_current_data ran since (cleared), and
             \* whether the call before it, with no deleteSection of the name in
             \* between, returned a Section too (again)
  last       \* the call (or load step) that completed last, with its result

vars == <<sections, objs, ld, keysRet, issued, last>>

----------------------------------------------------------------------------
(* Bounds of the model *)

\* raw lines stored in the Sections of the document, all together
MaxLines == 2
\* keys stored in the Sections of the document, all together
MaxKeys == 2

----------------------------------------------------------------------------
(* Strings and the String / Array methods the code uses *)

\* the UTF-8 byte order mark as load compares it: "\xEF\xBB\xBF"
BOM == <<"xEF", "xBB", "xBF">>

\* the characters /\s/ matches, as far as they occur in the inputs
Whitespace == {" ", "\t", "\n", "\r"}

Quotes == {"'", "\""}

\* String.prototype.indexOf(ch): 0-based index of the first occurrence, or -1
IndexOf(s, ch) ==
  IF \E i \in 1..Len(s) : s[i] = ch
  THEN (CHOOSE i \in 1..Len(s) : s[i] = ch /\ \A j \in 1..(i-1) : s[j] # ch) - 1
  ELSE -1

\* Array.prototype.indexOf(x): the same on arrays
ArrayIndexOf(a, x) == IndexOf(a, x)

Min(a, b) == IF a < b THEN a ELSE b
Max(a, b) == IF a > b THEN a ELSE b

\* String.prototype.substring(from, to): characters from..to-1 (0-based)
Substring(s, from, to) ==
  LET f == Min(Max(from, 0), Len(s))
      t == Min(Max(to, 0), Len(s))
  IN  SubSeq(s, Min(f, t) + 1, Max(f, t))

\* String.prototype.substr(from, length), from >= 0
Substr(s, from, length) ==
  IF length <= 0 THEN <<>> ELSE SubSeq(s, from + 1, Min(from + length, Len(s)))

\* String.prototype.slice(from) for from >= 0
Slice(s, from) == SubSeq(s, from + 1, Len(s))

\* s.replace(/\s+/g, "")
StripSpace(s) == SelectSeq(s, LAMBDA c : c \notin Whitespace)

\* s.replace(/['"]+/g, "")
StripQuotes(s) == SelectSeq(s, LAMBDA c : c \notin Quotes)

\* Array.prototype.splice(i, 1): i = -1 counts from the end
Splice1(a, i) ==
  LET p == IF i < 0 THEN Max(Len(a) + i, 0) + 1 ELSE i + 1
  IN  IF p > Len(a) THEN a
      ELSE SubSeq(a, 1, p - 1) \o SubSeq(a, p + 1, Len(a))

Range(f) == {f[i] : i \in DOMAIN f}

\* null, as parseLine returns it: no string of characters
Null == <<"null">>

\* undefined as a Section reference
Undefined == 0

----------------------------------------------------------------------------
(* The heap.  A heap state H is the record [sections, objs]: the document's *)
(* array of Section references and the Section objects they refer to.  The *)
(* methods below are functions from heap states to heap states (and a      *)
(* return value), so that a load step, a whole load and the API calls all  *)
(* run the same code.  An array that only its Section refers to is held in *)
(* the Section's field.                                                    *)

Heap == [sections |-> sections, objs |-> objs]

EmptyHeap == [sections |-> <<>>, objs |-> <<>>]

EmptyMap == [x \in {} |-> <<>>]

\* the reference of a new object: one that no object of the heap has
NewRef(o) ==
  CHOOSE i \in 1..(Cardinality(DOMAIN o) + 1) :
    i \notin DOMAIN o /\ \A j \in 1..(i-1) : j \in DOMAIN o

\* a reference to an object that was garbage collected: equal to no
\* reference of the heap, now or later
Dead == -1

\* Garbage collection: the Section objects that neither the document nor the
\* given roots refer to are dropped (nothing can reach them again).
Collect(H, secRoots) ==
  LET live == (Range(H.sections) \cup secRoots) \cap DOMAIN H.objs
  IN  [H EXCEPT !.objs = [s \in live |-> H.objs[s]]]

----------------------------------------------------------------------------
(* class Section *)

\* constructor(name)
NewSection(H, name) ==
  LET id == NewRef(H.objs)
  IN  [H |-> [H EXCEPT !.objs = (id :> [name |-> name, keysOrder |-> <<>>,
                                        lines |-> <<>>, values |-> EmptyMap]) @@ H.objs],
       ret |-> id]

\* set without the `!this.values.has(key)` test: the key is pushed every time
Section_set_AlwaysPush(H, s, key, new_value) ==
  [H EXCEPT !.objs[s].keysOrder = Append(@, key),
            !.objs[s].values = (key :> new_value) @@ H.objs[s].values]

\* set that leaves a key it already holds with the value it has
Section_set_FirstWins(H, s, key, new_value) ==
  LET o == H.objs[s]
  IN  IF key \in DOMAIN o.values THEN H
      ELSE [H EXCEPT !.objs[s].keysOrder = Append(@, key),
                     !.objs[s].values = (key :> new_value) @@ o.values]

\* set that moves a key it already holds to the end of keysOrder
Section_set_MoveToEnd(H, s, key, new_value) ==
  [H EXCEPT !.objs[s].keysOrder = Append(SelectSeq(@, LAMBDA k : k # key), key),
            !.objs[s].values = (key :> new_value) @@ H.objs[s].values]

\* set(key, new_value)
Section_set(H, s, key, new_value) ==
  LET o == H.objs[s]
      newKey == key \notin DOMAIN o.values
  IN  [H EXCEPT !.objs[s].keysOrder = IF newKey THEN Append(@, key) ELSE @,
                !.objs[s].values = (key :> new_value) @@ o.values]

\* get(key, default_value)
Section_get(H, s, key, default_value) ==
  IF key \in DOMAIN H.objs[s].values THEN H.objs[s].values[key] ELSE default_value

\* delete that removes the key from the Map and leaves keysOrder as it is
Section_delete_KeepOrder(H, s, key) ==
  LET o == H.objs[s]
  IN  [H |-> [H EXCEPT !.objs[s].values = [x \in DOMAIN o.values \ {key} |-> o.values[x]]],
       ret |-> key \in DOMAIN o.values]

\* delete(key): Map.delete tells whether the key was there
Section_delete(H, s, key) ==
  LET o == H.objs[s]
      success == key \in DOMAIN o.values
  IN  [H |-> [H EXCEPT !.objs[s].values = [x \in DOMAIN o.values \ {key} |-> o.values[x]],
                       !.objs[s].keysOrder =
                          IF success THEN Splice1(@, ArrayIndexOf(@, key)) ELSE @],
       ret |-> success]

\* a setLines that adds the lines to the ones the Section has
Section_setLines_Append(H, s, lines) == [H EXCEPT !.objs[s].lines = @ \o lines]

\* setLines(lines)
Section_setLines(H, s, lines) == [H EXCEPT !.objs[s].lines = lines]

\* a getLines that leaves out the comment lines when asked to
Section_getLines_NoComments(H, s, remove_comments) ==
  SelectSeq(H.objs[s].lines,
            LAMBDA line : /\ line # <<"\n">> /\ line # <<>>
                          /\ ~(remove_comments /\ IndexOf(line, "#") # -1))

\* getLines(remove_comments): a new array without the "" and "\n" entries
Section_getLines(H, s, remove_comments) ==
  SelectSeq(H.objs[s].lines, LAMBDA line : line # <<"\n">> /\ line # <<>>)

----------------------------------------------------------------------------
(* class IniFile *)

\* a parseLine for which a line without '=' is no pair
parseLine_NoEqualsIsNull(line) ==
  IF line = <<>> \/ line[1] = "#" \/ IndexOf(line, "=") = -1
  THEN [key |-> Null, value |-> Null]
  ELSE LET firstEquals == IndexOf(line, "=")
       IN  [key |-> StripSpace(Substring(line, 0, firstEquals)),
            value |-> StripQuotes(StripSpace(Substring(line, firstEquals + 1, Len(line))))]

\* parseLine(line): [key, value], or [null, null] for "" and for "#..."
parseLine(line) ==
  IF line = <<>> \/ line[1] = "#"
  THEN [key |-> Null, value |-> Null]
  ELSE LET firstEquals == IndexOf(line, "=")
       IN  IF firstEquals # -1
           THEN [key |-> StripSpace(Substring(line, 0, firstEquals)),
                 value |-> StripQuotes(StripSpace(Substring(line, firstEquals + 1, Len(line))))]
           ELSE [key |-> <<>>, value |-> <<>>]

\* getSection(sectionName): the first Section of that name, or undefined
getSection(H, sectionName) ==
  LET hits == {i \in 1..Len(H.sections) : H.objs[H.sections[i]].name = sectionName}
  IN  IF hits = {} THEN Undefined
      ELSE H.sections[CHOOSE i \in hits : \A j \in hits : i <= j]

\* getOrCreateSection without the lookup: a new Section every time
getOrCreateSection_AlwaysCreate(H, section_name) ==
  LET n == NewSection(H, section_name)
  IN  [H |-> [n.H EXCEPT !.sections = Append(@, n.ret)], ret |-> n.ret]

\* a getOrCreateSection that puts a new Section first
getOrCreateSection_Unshift(H, section_name) ==
  LET section == getSection(H, section_name)
  IN  IF section = Undefined
      THEN LET n == NewSection(H, section_name)
           IN  [H |-> [n.H EXCEPT !.sections = <<n.ret>> \o @], ret |-> n.ret]
      ELSE [H |-> H, ret |-> section]

\* getOrCreateSection(section_name)
getOrCreateSection(H, section_name) ==
  LET section == getSection(H, section_name)
  IN  IF section = Undefined
      THEN LET n == NewSection(H, section_name)
           IN  [H |-> [n.H EXCEPT !.sections = Append(@, n.ret)], ret |-> n.ret]
      ELSE [H |-> H, ret |-> section]

\* a deleteSection that takes the first Section off the document
deleteSection_First(H, section_name) ==
  LET s == getSection(H, section_name)
  IN  IF s = Undefined
      THEN [H |-> H, ret |-> FALSE]
      ELSE [H |-> [H EXCEPT !.sections = Tail(@)], ret |-> TRUE]

\* deleteSection(section_name)
deleteSection(H, section_name) ==
  LET s == getSection(H, section_name)
  IN  IF s = Undefined
      THEN [H |-> H, ret |-> FALSE]
      ELSE [H |-> [H EXCEPT !.sections = Splice1(@, ArrayIndexOf(@, s))], ret |-> TRUE]

\* exists(section_name)
exists(H, section_name) == getSection(H, section_name) # Undefined

\* setLines(section_name, lines)
setLines(H, section_name, lines) ==
  LET g == getOrCreateSection(H, section_name)
  IN  Section_setLines(g.H, g.ret, lines)

\* deleteKey(section_name, key)
deleteKey(H, section_name, key) ==
  LET section == getSection(H, section_name)
  IN  IF section = Undefined
      THEN [H |-> H, ret |-> FALSE]
      ELSE Section_delete(H, section, key)

\* getKeys(section_name): what the returned reference refers to.  For a Section
\* it is the Section's own keysOrder array ([sec |-> s]: whatever s.keysOrder
\* holds, now and later); for no Section it is a new empty array.
getKeys(H, section_name) ==
  LET section == getSection(H, section_name)
  IN  IF section = Undefined
      THEN [kind |-> "own", sec |-> Undefined, array |-> <<>>]
      ELSE [kind |-> "keysOrder", sec |-> section, array |-> <<>>]

\* getLines(section_name, remove_comments)
getLines(H, section_name, remove_comments) ==
  LET section == getSection(H, section_name)
  IN  IF section = Undefined THEN <<>>
      ELSE Section_getLines(H, section, remove_comments)

\* a loop body whose header lines make a Section without looking for one
ProcessLine_HeaderCreates(H, L, raw) ==
  LET line == IF L.first /\ Substr(raw, 0, 3) = BOM THEN Slice(raw, 3) ELSE raw
      loc == [L EXCEPT !.first = FALSE]
  IN  IF line # <<>> /\ line[1] = "["
      THEN LET endpos == IndexOf(line, "]")
           IN  IF endpos # -1
               THEN LET n == NewSection(H, Substr(line, 1, endpos - 1))
                    IN  [H |-> [n.H EXCEPT !.sections = Append(@, n.ret)],
                         L |-> [loc EXCEPT !.cur = n.ret]]
               ELSE [H |-> H, L |-> loc]
      ELSE IF L.cur # Undefined
           THEN LET kv == parseLine(line)
                IN  IF (kv.key = Null /\ kv.value = Null)
                       \/ (Len(line) # 0 /\ \E val \in {"$", "+", "*"} : line[1] = val)
                    THEN [H |-> [H EXCEPT !.objs[L.cur].lines = Append(@, line)],
                          L |-> loc]
                    ELSE IF kv.key # Null /\ kv.value # Null
                         THEN [H |-> Section_set(H, L.cur, kv.key, kv.value), L |-> loc]
                         ELSE [H |-> H, L |-> loc]
           ELSE [H |-> H, L |-> loc]

\* a loop body that does not store a line the current section holds already
ProcessLine_StoresOnce(H, L, raw) ==
  LET line == IF L.first /\ Substr(raw, 0, 3) = BOM THEN Slice(raw, 3) ELSE raw
      loc == [L EXCEPT !.first = FALSE]
  IN  IF line # <<>> /\ line[1] = "["
      THEN LET endpos == IndexOf(line, "]")
           IN  IF endpos # -1
               THEN LET g == getOrCreateSection(H, Substr(line, 1, endpos - 1))
                    IN  [H |-> g.H, L |-> [loc EXCEPT !.cur = g.ret]]
               ELSE [H |-> H, L |-> loc]
      ELSE IF L.cur # Undefined
           THEN LET kv == parseLine(line)
                IN  IF (kv.key = Null /\ kv.value = Null)
                       \/ (Len(line) # 0 /\ \E val \in {"$", "+", "*"} : line[1] = val)
                    THEN [H |-> [H EXCEPT !.objs[L.cur].lines =
                                   IF line \in Range(@) THEN @ ELSE Append(@, line)],
                          L |-> loc]
                    ELSE IF kv.key # Null /\ kv.value # Null
                         THEN [H |-> Section_set(H, L.cur, kv.key, kv.value), L |-> loc]
                         ELSE [H |-> H, L |-> loc]
           ELSE [H |-> H, L |-> loc]

\* a loop body in which a '[' line without ']' ends the current section
ProcessLine_UnclosedEnds(H, L, raw) ==
  LET line == IF L.first /\ Substr(raw, 0, 3) = BOM THEN Slice(raw, 3) ELSE raw
      loc == [L EXCEPT !.first = FALSE]
  IN  IF line # <<>> /\ line[1] = "["
      THEN LET endpos == IndexOf(line, "]")
           IN  IF endpos # -1
               THEN LET g == getOrCreateSection(H, Substr(line, 1, endpos - 1))
                    IN  [H |-> g.H, L |-> [loc EXCEPT !.cur = g.ret]]
               ELSE [H |-> H, L |-> [loc EXCEPT !.cur = Undefined]]
      ELSE IF L.cur # Undefined
           THEN LET kv == parseLine(line)
                IN  IF (kv.key = Null /\ kv.value = Null)
                       \/ (Len(line) # 0 /\ \E val \in {"$", "+", "*"} : line[1] = val)
                    THEN [H |-> [H EXCEPT !.objs[L.cur].lines = Append(@, line)],
                          L |-> loc]
                    ELSE IF kv.key # Null /\ kv.value # Null
                         THEN [H |-> Section_set(H, L.cur, kv.key, kv.value), L |-> loc]
                         ELSE [H |-> H, L |-> loc]
           ELSE [H |-> H, L |-> loc]

\* a loop body that gives lines starting with '$', '+' or '*' no special
\* treatment
ProcessLine_NoVerbatim(H, L, raw) ==
  LET line == IF L.first /\ Substr(raw, 0, 3) = BOM THEN Slice(raw, 3) ELSE raw
      loc == [L EXCEPT !.first = FALSE]
  IN  IF line # <<>> /\ line[1] = "["
      THEN LET endpos == IndexOf(line, "]")
           IN  IF endpos # -1
               THEN LET g == getOrCreateSection(H, Substr(line, 1, endpos - 1))
                    IN  [H |-> g.H, L |-> [loc EXCEPT !.cur = g.ret]]
               ELSE [H |-> H, L |-> loc]
      ELSE IF L.cur # Undefined
           THEN LET kv == parseLine(line)
                IN  IF kv.key = Null /\ kv.value = Null
                    THEN [H |-> [H EXCEPT !.objs[L.cur].lines = Append(@, line)],
                          L |-> loc]
                    ELSE IF kv.key # Null /\ kv.value # Null
                         THEN [H |-> Section_set(H, L.cur, kv.key, kv.value), L |-> loc]
                         ELSE [H |-> H, L |-> loc]
           ELSE [H |-> H, L |-> loc]

\* One pass of load's `for await (let line of rl)` body.  L holds the locals
\* current_section (cur) and first_line (first).
ProcessLine(H, L, raw) ==
  LET line == IF L.first /\ Substr(raw, 0, 3) = BOM THEN Slice(raw, 3) ELSE raw
      loc == [L EXCEPT !.first = FALSE]
  IN  IF line # <<>> /\ line[1] = "["
      THEN LET endpos == IndexOf(line, "]")
           IN  IF endpos # -1
               THEN LET sub == Substr(line, 1, endpos - 1)
                        g == getOrCreateSection(H, sub)
                    IN  [H |-> g.H, L |-> [loc EXCEPT !.cur = g.ret]]
               ELSE [H |-> H, L |-> loc]
      ELSE IF L.cur # Undefined
           THEN LET kv == parseLine(line)
                IN  IF (kv.key = Null /\ kv.value = Null)
                       \/ (Len(line) # 0 /\ \E val \in {"$", "+", "*"} : line[1] = val)
                    THEN [H |-> [H EXCEPT !.objs[L.cur].lines = Append(@, line)],
                          L |-> loc]
                    ELSE IF kv.key # Null /\ kv.value # Null
                         THEN [H |-> Section_set(H, L.cur, kv.key, kv.value), L |-> loc]
                         ELSE [H |-> H, L |-> loc]
           ELSE [H |-> H, L |-> loc]

\* load that keeps the Sections whatever keep_current_data says
LoadBegin_NoClear(H, keep_current_data) ==
  [H |-> H, L |-> [cur |-> Undefined, first |-> TRUE]]

\* load's first statements: `if (!keep_current_data) this.sections = []`,
\* then the locals before the loop
LoadBegin(H, keep_current_data) ==
  [H |-> IF ~keep_current_data THEN [H EXCEPT !.sections = <<>>] ELSE H,
   L |-> [cur |-> Undefined, first |-> TRUE]]

\* the whole loop over the lines of a stream
RECURSIVE LoadLoop(_, _, _)
LoadLoop(H, L, lines) ==
  IF lines = <<>> THEN H
  ELSE LET r == ProcessLine(H, L, Head(lines))
       IN  LoadLoop(r.H, r.L, Tail(lines))

\* load(fileName, keep_current_data) on a stream that delivers `lines`
load(H, lines, keep_current_data) ==
  LET b == LoadBegin(H, keep_current_data)
  IN  LoadLoop(b.H, b.L, lines)

\* readline: the lines of a text, split at "\n" (a last line without "\n" counts
\* when it is not empty)
RECURSIVE ReadLines(_, _)
ReadLines(text, cur) ==
  IF text = <<>> THEN (IF cur = <<>> THEN <<>> ELSE <<cur>>)
  ELSE IF Head(text) = "\n" THEN <<cur>> \o ReadLines(Tail(text), <<>>)
  ELSE ReadLines(Tail(text), Append(cur, Head(text)))

RECURSIVE Concat(_)
Concat(ss) == IF ss = <<>> THEN <<>> ELSE Head(ss) \o Concat(Tail(ss))

\* what `${value}` writes for a key the Map does not hold
UndefinedText == <<"u", "n", "d", "e", "f", "i", "n", "e", "d">>

\* writes that leave out the raw lines
SaveSection_KeysOnly(H, s) ==
  LET o == H.objs[s]
  IN  (<<"[">> \o o.name \o <<"]", "\n">>)
      \o Concat([i \in 1..Len(o.keysOrder) |->
                   o.keysOrder[i] \o <<"=">> \o o.values[o.keysOrder[i]] \o <<"\n">>])
      \o <<"\n">>

\* writes that leave out a Section with neither keys nor lines
SaveSection_SkipEmpty(H, s) ==
  LET o == H.objs[s]
  IN  IF Len(o.keysOrder) = 0 /\ Len(o.lines) = 0 THEN <<>>
      ELSE (<<"[">> \o o.name \o <<"]", "\n">>)
           \o (IF Len(o.keysOrder) = 0
               THEN Concat([i \in 1..Len(o.lines) |-> o.lines[i] \o <<"\n">>])
               ELSE Concat([i \in 1..Len(o.keysOrder) |->
                             o.keysOrder[i] \o <<"=">> \o o.values[o.keysOrder[i]]
                             \o <<"\n">>]))
           \o <<"\n">>

\* the writes of save for one Section
SaveSection(H, s) ==
  LET o == H.objs[s]
  IN  (<<"[">> \o o.name \o <<"]", "\n">>)
      \o (IF Len(o.keysOrder) = 0
          THEN Concat([i \in 1..Len(o.lines) |-> o.lines[i] \o <<"\n">>]) \o <<"\n">>
          ELSE Concat([i \in 1..Len(o.keysOrder) |->
                        o.keysOrder[i] \o <<"=">>
                        \o (IF o.keysOrder[i] \in DOMAIN o.values
                            THEN o.values[o.keysOrder[i]] ELSE UndefinedText)
                        \o <<"\n">>])
               \o <<"\n">>)

\* save(filePath): the text written to the stream
save(H) == Concat([i \in 1..Len(H.sections) |-> SaveSection(H, H.sections[i])])

----------------------------------------------------------------------------
(* Inputs: the arguments callers pass and the lines a stream delivers *)

SecNames == {<<"A">>, <<"B">>}

KeyArgs == {<<"k">>}

ValueArgs == {<<"a", " ", "b">>}

\* arrays passed to setLines
LinesArgs == {<<>>, << <<"$", "x", "=", "1">> >>, << <<>>, <<"#", "c">> >>}

\* an array with an entry that is a newline character
NewlineArgs == {<< <<"\n">>, <<"#", "c">> >>}

\* arrays of a line that starts with none of '#', '$', '+', '*': one with '='
\* and one without
PlainArgs == {<< <<"k", "=", "v">> >>, << <<"j">> >>}

\* header lines: two sections, a header behind a byte order mark, and a '['
\* without ']'
HeaderLines ==
  { <<"[", "A", "]">>,
    <<"[", "B", "]">>,
    <<"xEF", "xBB", "xBF", "[", "A", "]">>,
    <<"[", "A">> }

\* key=value lines: plain, with spaces and quotes, and without '='
PairLines ==
  { <<"k", "=", "v">>,
    <<"k", " ", "=", " ", "'", "w", "'">>,
    <<"j">> }

\* a comment and a blank line
CommentLines == { <<"#", "c">>, <<>> }

\* lines kept verbatim
VerbatimLines ==
  { <<"$", "x", "=", "1">>,
    <<"+", "k", "=", "v">>,
    <<"*">> }

SrcLines == HeaderLines \cup PairLines \cup CommentLines \cup VerbatimLines

Loaders == {1, 2}

----------------------------------------------------------------------------
(* The state machine *)

\* a load call that is not running.  hdrs and pre record, for a running call:
\* the section names its header lines named so far, and the Sections (with
\* their positions) the document held when load was called with
\* keep_current_data, less those a header line has named since.
Idle ==
  [pc |-> "idle", keep |-> TRUE, cur |-> Undefined, first |-> TRUE,
   hdrs |-> {}, hdr |-> {}, pre |-> <<>>, old |-> <<>>, seen |-> <<>>]

NotIssued == [sec |-> Undefined, cleared |-> FALSE, again |-> FALSE]

NoKeys == [kind |-> "none", sec |-> Undefined, array |-> <<>>]

Init ==
  /\ sections = <<>>
  /\ objs = <<>>
  /\ ld = [p \in Loaders |-> Idle]
  /\ keysRet = NoKeys
  /\ issued = [n \in SecNames |-> NotIssued]
  /\ last = [op |-> "new"]

AllIdle == \A p \in Loaders : ld[p].pc = "idle"

\* the array a reference returned by getKeys refers to
Deref(H, kr) == IF kr.kind = "keysOrder" THEN H.objs[kr.sec].keysOrder ELSE kr.array

\* the heap stays within the bounds of the model
Fits(H) ==
  /\ Cardinality(UNION {{<<s, i>> : i \in 1..Len(H.objs[s].lines)} : s \in DOMAIN H.objs})
       <= MaxLines
  /\ Cardinality(UNION {{<<s, i>> : i \in 1..Len(H.objs[s].keysOrder)} : s \in DOMAIN H.objs})
       <= MaxKeys

\* The state after a call: the heap H less the Section objects nothing refers
\* to any more.  A reference the caller still holds to such an object becomes
\* Dead; the keysOrder array of such an object stays with the caller.
Update(H, loaders, kr, iss) ==
  /\ Fits(H)
  /\ LET G == Collect(H, {loaders[p].cur : p \in Loaders})
     IN  /\ sections' = G.sections
         /\ objs' = G.objs
         /\ keysRet' = IF kr.kind = "keysOrder" /\ kr.sec \notin DOMAIN G.objs
                       THEN [kind |-> "own", sec |-> Undefined, array |-> Deref(H, kr)]
                       ELSE kr
         /\ issued' = [n \in SecNames |->
                         IF iss[n].sec # Undefined /\ iss[n].sec \notin DOMAIN G.objs
                         THEN [iss[n] EXCEPT !.sec = Dead] ELSE iss[n]]
  /\ ld' = loaders

\* the names a line is a header of: "[name]..." with no ']' in name (behind a
\* byte order mark on the first line of a stream)
HeaderNames(line, first) ==
  LET l == IF first /\ Len(line) >= 3 /\ SubSeq(line, 1, 3) = BOM
           THEN SubSeq(line, 4, Len(line)) ELSE line
  IN  {SubSeq(l, 2, i - 1) : i \in {j \in 2..Len(l) : l[1] = "[" /\ l[j] = "]"
                                        /\ \A m \in 2..(j-1) : l[m] # "]"}}

\* the line starts with '[' (behind a byte order mark on a first line)
StartsWithBracket(line, first) ==
  LET l == IF first /\ Len(line) >= 3 /\ SubSeq(line, 1, 3) = BOM
           THEN SubSeq(line, 4, Len(line)) ELSE line
  IN  l # <<>> /\ l[1] = "["

\* What a load has read for the sections its source names: seen[name] holds
\* the keys of the key/value lines under the headers of that name, in the
\* order of their first lines (keys), the value of the last line of each key
\* (vals), and the comment, blank and '$', '+', '*' lines under those headers
\* in their order (raws).  NoneSeen is seen[name] before any such line.
NoneSeen == [keys |-> <<>>, vals |-> <<>>, raws |-> <<>>]

SeenOf(seen, name) == IF name \in DOMAIN seen THEN seen[name] ELSE NoneSeen

\* seen after one more line, read while the latest header is hdr (a set, empty
\* before the first header)
Observe(seen, hdr, line, first) ==
  IF hdr = {} \/ StartsWithBracket(line, first) THEN seen
  ELSE LET name == CHOOSE n \in hdr : TRUE
           was == SeenOf(seen, name)
           kv == parseLine(line)
           now == IF line = <<>> \/ line[1] \in {"#", "$", "+", "*"}
                  THEN [was EXCEPT !.raws = Append(@, line)]
                  ELSE [was EXCEPT
                          !.keys = IF kv.key \in Range(@) THEN @ ELSE Append(@, kv.key),
                          !.vals = (kv.key :> kv.value) @@ @]
       IN  (name :> now) @@ seen

\* the Sections of the document with their positions
Snapshot(H) ==
  [s \in Range(H.sections) |->
     [obj |-> H.objs[s], pos |-> ArrayIndexOf(H.sections, s)]]

\* The actions take `obs`, what is recorded about the calls beyond the state of
\* the program:
\*   "ret"   last: the call completed last and what it returned;
\*   "ids"   issued: the Section the caller got from getOrCreateSection, per
\*           name;
\*   "keys"  keysRet: the array the caller got from getKeys;
\*   "lines" the array the caller got from getLines, in last (the caller then
\*           also passes NewlineArgs and PlainArgs to setLines);
\*   "pre"   ld[p].hdrs, ld[p].hdr and ld[p].pre of a running load: the names
\*           its header lines named, the name the latest of them named (as a
\*           set, empty before the first), and the Sections the document held
\*           at the call that no header line has named;
\*   "src"   ld[p].old and ld[p].seen of a running load: the Sections the
\*           document held when the first line came, and what the lines so
\*           far hold for each section name;
\* and what the environment does:
\*   "err"   streams emit 'error';
\*   "conc"  a second load with keep_current_data, and getOrCreateSection,
\*           Section.set and Section.delete calls, while a load runs.
Returned(obs, call) == last' = IF "ret" \in obs THEN call ELSE last

\* when the caller calls getOrCreateSection, Section.set, Section.delete or
\* load with keep_current_data: between the loads, or ("conc") also while
\* loads are waiting for their next line
CallAllowed(obs) == "conc" \in obs \/ AllIdle

\* the load calls that run: one at a time, or ("conc") two that overlap
LoadersOf(obs) == IF "conc" \in obs THEN Loaders ELSE {1}

GetOrCreateSection(obs, name) ==
  /\ CallAllowed(obs)
  /\ LET g == getOrCreateSection(Heap, name)
     IN  /\ Update(g.H, ld, keysRet,
                   IF "ids" \in obs
                   THEN [issued EXCEPT ![name] =
                           [sec |-> g.ret, cleared |-> FALSE,
                            again |-> issued[name].sec # Undefined]]
                   ELSE issued)
         /\ Returned(obs, [op |-> "getOrCreateSection", ret |-> g.ret])

DeleteSection(obs, name) ==
  /\ AllIdle
  /\ LET d == deleteSection(Heap, name)
     IN  /\ Update(d.H, ld, keysRet, [issued EXCEPT ![name] = NotIssued])
         /\ Returned(obs, [op |-> "deleteSection", ret |-> d.ret])

SetLines(obs, name, lines) ==
  /\ AllIdle
  /\ Update(setLines(Heap, name, lines), ld, keysRet, issued)
  /\ Returned(obs, [op |-> "setLines"])

DeleteKey(obs, name, key) ==
  /\ AllIdle
  /\ LET d == deleteKey(Heap, name, key)
     IN  /\ Update(d.H, ld, keysRet, issued)
         /\ Returned(obs, [op |-> "deleteKey", ret |-> d.ret])

GetKeys(obs, name) ==
  /\ AllIdle
  /\ Update(Heap, ld, IF "keys" \in obs THEN getKeys(Heap, name) ELSE keysRet, issued)
  /\ Returned(obs, [op |-> "getKeys"])

\* getLines: the call changes nothing; what it returns is recorded for "lines"
GetLines(obs, name, remove_comments) ==
  /\ AllIdle
  /\ Update(Heap, ld, keysRet, issued)
  /\ Returned(obs, IF "lines" \in obs
                   THEN [op |-> "getLines", ret |-> getLines(Heap, name, remove_comments)]
                   ELSE [op |-> "getLines"])

\* Section.set on a Section of the document
SectionSet(obs, s, key, value) ==
  /\ CallAllowed(obs)
  /\ s \in Range(sections)
  /\ Update(Section_set(Heap, s, key, value), ld, keysRet, issued)
  /\ Returned(obs, [op |-> "set"])

\* Section.delete on a Section of the document
SectionDelete(obs, s, key) ==
  /\ CallAllowed(obs)
  /\ s \in Range(sections)
  /\ LET d == Section_delete(Heap, s, key)
     IN  /\ Update(d.H, ld, keysRet, issued)
         /\ Returned(obs, [op |-> "delete", ret |-> d.ret])

\* load, up to its first await
LoadStart(obs, p, keep_current_data) ==
  /\ AllIdle \/ (CallAllowed(obs) /\ keep_current_data)
  /\ ld[p].pc = "idle"
  /\ LET b == LoadBegin(Heap, keep_current_data)
     IN  Update(b.H,
                [ld EXCEPT ![p] = [pc |-> "reading", keep |-> keep_current_data,
                                   cur |-> b.L.cur, first |-> b.L.first,
                                   hdrs |-> {}, hdr |-> {},
                                   pre |-> IF "pre" \in obs /\ keep_current_data
                                           THEN Snapshot(Heap) ELSE <<>>,
                                   old |-> IF "src" \in obs
                                           THEN Snapshot(b.H) ELSE <<>>,
                                   seen |-> <<>>]],
                keysRet,
                IF keep_current_data THEN issued
                ELSE [n \in SecNames |->
                        IF issued[n].sec = Undefined THEN issued[n]
                        ELSE [issued[n] EXCEPT !.cleared = TRUE]])
  /\ Returned(obs, [op |-> "loadStart"])

\* load: the stream delivers a line
LoadLine(obs, p, line) ==
  /\ ld[p].pc = "reading"
  /\ LET r == ProcessLine(Heap, [cur |-> ld[p].cur, first |-> ld[p].first], line)
         named == IF "pre" \in obs THEN HeaderNames(line, ld[p].first) ELSE {}
     IN  Update(r.H,
                [ld EXCEPT ![p].cur = r.L.cur, ![p].first = r.L.first,
                           ![p].hdrs = @ \cup named,
                           ![p].hdr = IF named = {} THEN @ ELSE named,
                           ![p].seen = IF "src" \in obs
                                       THEN Observe(@, ld[p].hdr, line, ld[p].first)
                                       ELSE @,
                           ![p].pre = [s \in {t \in DOMAIN @ : @[t].obj.name \notin named}
                                         |-> @[s]]],
                keysRet, issued)
  /\ Returned(obs, [op |-> "line"])

\* How the `for await (let line of rl)` of a load stops taking lines.  "end":
\* the stream ends, the loop is left and load returns true.  When the stream
\* emits 'error' (it could not be opened, or failed after some lines), the
\* handler of load only logs: it neither closes rl nor touches the document.
\* The stream then emits no 'end', and what becomes of the loop is up to the
\* readline of the runtime: "hang", rl never closes and the promise of load
\* is never settled, or "throw", rl passes the error on, the loop throws and
\* the promise of load is rejected.
StreamEnds(obs) == IF "err" \in obs THEN {"end", "hang", "throw"} ELSE {"end"}

\* load: the stream delivers no more lines
LoadEnd(obs, p) ==
  /\ ld[p].pc = "reading"
  /\ \E how \in StreamEnds(obs) :
        /\ Update(Heap,
                  [ld EXCEPT ![p] = IF how = "hang" THEN [Idle EXCEPT !.pc = "hung"]
                                    ELSE Idle],
                  keysRet, issued)
        /\ Returned(obs, IF how = "end" THEN [op |-> "load", ret |-> TRUE]
                         ELSE [op |-> "load:" \o how])

Save(obs) ==
  /\ AllIdle
  /\ Returned(obs, [op |-> "save", out |-> save(Heap), ret |-> TRUE])
  /\ UNCHANGED <<sections, objs, ld, keysRet, issued>>

\* The calls of a caller, which serialises them (no call while a load runs)
\* unless obs says otherwise; the streams deliver the lines of src
Step(obs, src) ==
  \/ \E name \in SecNames : GetOrCreateSection(obs, name)
  \/ \E name \in SecNames : DeleteSection(obs, name)
  \/ \E name \in SecNames,
        lines \in LinesArgs
                    \cup (IF "lines" \in obs THEN NewlineArgs \cup PlainArgs ELSE {}) :
        SetLines(obs, name, lines)
  \/ \E name \in SecNames, key \in KeyArgs \cup {<<>>} : DeleteKey(obs, name, key)
  \/ \E name \in SecNames : GetKeys(obs, name)
  \/ \E name \in SecNames, remove_comments \in BOOLEAN :
        GetLines(obs, name, remove_comments)
  \/ \E s \in DOMAIN objs, key \in KeyArgs, value \in ValueArgs :
        SectionSet(obs, s, key, value)
  \/ \E s \in DOMAIN objs, key \in KeyArgs \cup {<<>>} : SectionDelete(obs, s, key)
  \/ \E p \in LoadersOf(obs), keep \in BOOLEAN : LoadStart(obs, p, keep)
  \/ \E p \in LoadersOf(obs), line \in src : LoadLine(obs, p, line)
  \/ \E p \in LoadersOf(obs) : LoadEnd(obs, p)
  \/ Save(obs)

\* the calls and what they return
Next == Step({"ret"}, SrcLines)

Spec == Init /\ [][Next]_vars

\* a running load, with what the document held when it was called
NextLoad == Step({"pre"}, SrcLines)

SpecLoad == Init /\ [][NextLoad]_vars

\* streams that fail
NextErr == Step({"ret", "err"}, HeaderLines \cup {<<"k", "=", "v">>, <<"#", "c">>})

SpecErr == Init /\ [][NextErr]_vars

\* the arrays getLines returns, with newline entries and lines of every
\* kind among the lines passed to setLines
NextLines == Step({"ret", "lines"}, {<<"[", "A", "]">>} \cup CommentLines \cup VerbatimLines)

SpecLines == Init /\ [][NextLines]_vars

\* a running load, with what the document held before and what the source
\* has held so far
NextMerge ==
  Step({"pre", "src"},
       {<<"[", "A", "]">>, <<"[", "B", "]">>, <<"[", "A">>}
         \cup PairLines \cup {<<"#", "c">>, <<"$", "x", "=", "1">>})

SpecMerge == Init /\ [][NextMerge]_vars

\* two loads that overlap, and calls while they run
NextConc ==
  Step({"conc"},
       {<<"[", "A", "]">>, <<"[", "B", "]">>, <<"k", "=", "v">>, <<"j">>, <<"#", "c">>})

SpecConc == Init /\ [][NextConc]_vars

\* a caller that remembers the Sections getOrCreateSection returned
NextIds == Step({"ids"}, HeaderLines \cup {<<"k", "=", "v">>, <<"#", "c">>})

SpecIds == Init /\ [][NextIds]_vars

\* a caller that keeps the array getKeys returned
NextKeys == Step({"keys"}, HeaderLines \cup PairLines \cup {<<"#", "c">>})

SpecKeys == Init /\ [][NextKeys]_vars

----------------------------------------------------------------------------
(* Properties *)

NoDuplicates(a) == \A i, j \in 1..Len(a) : a[i] = a[j] => i = j

\* C1: in every state that Section.set, Section.delete, IniFile.deleteKey and
\* IniFile.load calls (and the other calls of IniFile) reach, the keysOrder of
\* every Section holds no key twice, and the keys of its values Map are exactly
\* the entries of keysOrder.
C1_KeysOrderMatchesValues ==
  \A s \in DOMAIN objs :
     /\ NoDuplicates(objs[s].keysOrder)
     /\ DOMAIN objs[s].values = Range(objs[s].keysOrder)

\* a delete has just removed one of the two keys of a Section
C1_Witness ==
  /\ last.op = "delete"
  /\ last.ret = TRUE
  /\ \E s \in DOMAIN objs : Len(objs[s].keysOrder) = 1 /\ Len(objs[s].lines) > 0

OneSectionPerName ==
  \A i, j \in 1..Len(sections) :
     objs[sections[i]].name = objs[sections[j]].name => i = j

\* C2 as stated: the document holds at most one Section per name, and a
\* getOrCreateSection call returns the Section the call before it with the same
\* name returned, when no deleteSection of that name came in between.
C2_SameSectionUnlessDeleted ==
  /\ []OneSectionPerName
  /\ [][\A n \in SecNames :
          (GetOrCreateSection({"ids"}, n) /\ issued[n].sec # Undefined)
             => issued'[n].sec = issued[n].sec]_vars

\* C2, amended: the document holds at most one Section per name, and a
\* getOrCreateSection call returns the Section the call before it with the same
\* name returned, when neither a deleteSection of that name nor a load without
\* keep_current_data came in between.
C2_SameSectionUnlessDeletedOrCleared ==
  /\ []OneSectionPerName
  /\ [][\A n \in SecNames :
          (GetOrCreateSection({"ids"}, n) /\ issued[n].sec # Undefined
             /\ ~issued[n].cleared)
             => issued'[n].sec = issued[n].sec]_vars

\* the second of two getOrCreateSection calls with one name has returned, and
\* the document holds two Sections
C2_Witness ==
  /\ Len(sections) = 2
  /\ \E n \in SecNames :
        /\ issued[n].again
        /\ ~issued[n].cleared
        /\ issued[n].sec \in Range(sections)
        /\ objs[issued[n].sec].name = n

\* the document that load builds from the text save writes, starting empty
Reloaded == load(EmptyHeap, ReadLines(save(Heap), <<>>), TRUE)

\* C3: for a document whose Sections hold no raw lines, save and then load of
\* the written text into an empty document gives, for every Section, the same
\* getKeys sequence and the same get value for every key.
C3_SaveLoadRoundTrip ==
  (AllIdle /\ \A s \in Range(sections) : objs[s].lines = <<>>)
    => \A s \in Range(sections) :
          LET name == objs[s].name
              t == getSection(Reloaded, name)
          IN  /\ Deref(Reloaded, getKeys(Reloaded, name)) = Deref(Heap, getKeys(Heap, name))
              /\ \A key \in Range(objs[s].keysOrder) :
                    /\ t # Undefined
                    /\ Section_get(Reloaded, t, key, Null) = Section_get(Heap, s, key, Null)

\* a with every entry equal to x removed
Without(a, x) == SelectSeq(a, LAMBDA y : y # x)

\* every Section object other than s is the same before and after the step
OthersUnchanged(s) ==
  /\ DOMAIN objs' = DOMAIN objs
  /\ \A t \in DOMAIN objs \ {s} : objs'[t] = objs[t]

\* what Section.set(key, value) on Section s is to do in a step
SetPost(s, key, value) ==
  LET o == objs[s]
      n == objs'[s]
  IN  /\ IF key \in Range(o.keysOrder)
         THEN n.keysOrder = o.keysOrder
         ELSE n.keysOrder = Append(o.keysOrder, key)
      /\ DOMAIN n.values = DOMAIN o.values \cup {key}
      /\ n.values[key] = value
      /\ \A k \in DOMAIN o.values \ {key} : n.values[k] = o.values[k]
      /\ Without(n.keysOrder, key) = Without(o.keysOrder, key)
      /\ n.lines = o.lines /\ n.name = o.name
      /\ sections' = sections
      /\ OthersUnchanged(s)

\* C4: Section.set(key, value) on a key the Section holds gives it the value
\* and leaves keysOrder as it is; on a key it does not hold it appends the key
\* to keysOrder and stores the value; in both cases every other key keeps its
\* value and its place among the other keys.
C4_SetKeepsPosition ==
  [][\A s \in DOMAIN objs, key \in KeyArgs, value \in ValueArgs :
        SectionSet({"ret"}, s, key, value) => SetPost(s, key, value)]_vars

\* set has just given a new value to a key that is not the last of keysOrder
C4_Witness ==
  /\ last.op = "set"
  /\ \E s \in DOMAIN objs :
        /\ Len(objs[s].keysOrder) = 2
        /\ objs[s].keysOrder[1] \in KeyArgs
        /\ objs[s].values[objs[s].keysOrder[1]] \in ValueArgs

\* what Section.delete(key) on Section s is to do in a step that returns ret
DeletePost(s, key, ret) ==
  LET o == objs[s]
      n == objs'[s]
      present == key \in Range(o.keysOrder)
  IN  /\ ret = present
      /\ ~present => n = o
      /\ present => /\ n.keysOrder = Without(o.keysOrder, key)
                    /\ Len(n.keysOrder) = Len(o.keysOrder) - 1
                    /\ DOMAIN n.values = DOMAIN o.values \ {key}
                    /\ \A k \in DOMAIN n.values : n.values[k] = o.values[k]
                    /\ n.lines = o.lines /\ n.name = o.name
      /\ sections' = sections
      /\ OthersUnchanged(s)

\* C5: Section.delete(key), and deleteKey on a section that exists, return
\* false on a key the Section does not hold and change nothing; on a key it
\* holds they return true and remove that key, and only it, from values and
\* keysOrder.  deleteKey on a name with no Section returns false and creates
\* no Section.
C5_DeleteRemovesOnlyTheKey ==
  [][/\ \A s \in DOMAIN objs, key \in KeyArgs \cup {<<>>} :
          (last'.op = "delete" /\ SectionDelete({"ret"}, s, key))
             => DeletePost(s, key, last'.ret)
     /\ \A name \in SecNames, key \in KeyArgs \cup {<<>>} :
          (last'.op = "deleteKey" /\ DeleteKey({"ret"}, name, key)) =>
             LET named == {s \in Range(sections) : objs[s].name = name}
             IN  IF named = {}
                 THEN last'.ret = FALSE /\ sections' = sections /\ objs' = objs
                 ELSE \A s \in named : DeletePost(s, key, last'.ret)]_vars

\* deleteKey has just removed one of the two keys of a Section
C5_Witness ==
  /\ last.op = "deleteKey"
  /\ last.ret = TRUE
  /\ \E s \in DOMAIN objs : Len(objs[s].keysOrder) = 1

C7_VerbatimLinesAreRaw ==
  [][\A line \in SrcLines :
        (/\ last'.op = "line"
         /\ ld[1].cur # Undefined
         /\ line # <<>> /\ line[1] \in {"$", "+", "*"}
         /\ LoadLine({"ret"}, 1, line))
        => LET c == ld[1].cur
           IN  /\ objs'[c].lines = Append(objs[c].lines, line)
               /\ DOMAIN objs' = DOMAIN objs
               /\ \A s \in DOMAIN objs :
                     /\ objs'[s].keysOrder = objs[s].keysOrder
                     /\ objs'[s].values = objs[s].values
                     /\ s # c => objs'[s].lines = objs[s].lines
               /\ sections' = sections
               /\ ld'[1].cur = c]_vars

\* a load has just taken a second line of this kind into its current section:
\* two different ones, both with '=', in the order they came
C7_Witness ==
  /\ last.op = "line"
  /\ ld[1].pc = "reading"
  /\ ld[1].cur # Undefined
  /\ \E s \in Range(sections) :
        /\ s = ld[1].cur
        /\ objs[s].lines = << <<"$", "x", "=", "1">>, <<"+", "k", "=", "v">> >>
        /\ objs[s].keysOrder = <<>>

\* C8: deleteSection(name) for a name with no Section returns false and
\* leaves the sections array and every Section as they are; for a name with a
\* Section it returns true and takes exactly that Section out of the array,
\* the others keeping their order and contents, and exists(name) is false
\* after it.  exists(name) becomes true again only by a call that creates the
\* name: getOrCreateSection(name), setLines(name, ...) or a header line
\* [name] of a load.
C8_DeleteSection ==
  [][\A name \in SecNames :
        /\ (last'.op = "deleteSection" /\ DeleteSection({"ret"}, name))
           => IF ~exists(Heap, name)
              THEN /\ last'.ret = FALSE
                   /\ sections' = sections
                   /\ objs' = objs
              ELSE LET s == getSection(Heap, name)
                   IN  /\ last'.ret = TRUE
                       /\ s \notin Range(sections')
                       /\ sections' = Without(sections, s)
                       /\ Len(sections') = Len(sections) - 1
                       /\ \A t \in Range(sections') : objs'[t] = objs[t]
                       /\ ~exists(Heap, name)'
        /\ (~exists(Heap, name) /\ exists(Heap, name)')
           => \/ last'.op = "getOrCreateSection"
                 /\ GetOrCreateSection({"ret"}, name)
              \/ last'.op = "setLines"
                 /\ \E lines \in LinesArgs : SetLines({"ret"}, name, lines)
              \/ last'.op = "line"
                 /\ \E line \in SrcLines :
                       /\ name \in HeaderNames(line, ld[1].first)
                       /\ LoadLine({"ret"}, 1, line)]_vars

\* deleteSection has just returned true for the second of two Sections, and
\* the first is what the document holds
C8_Witness ==
  /\ last.op = "deleteSection"
  /\ last.ret = TRUE
  /\ Len(sections) = 1
  /\ objs[sections[1]].name = <<"A">>
  /\ objs[sections[1]].keysOrder # <<>>

\* the lines save is to write for a Section: the header, then the raw lines
\* if it has no key and a key=value line per key otherwise, then a blank line
SectionText(o) ==
  << <<"[">> \o o.name \o <<"]">> >>
  \o (IF o.keysOrder = <<>> THEN o.lines
      ELSE [i \in 1..Len(o.keysOrder) |->
              o.keysOrder[i] \o <<"=">> \o o.values[o.keysOrder[i]]])
  \o << <<>> >>

\* lines, each ended by a newline, as one text
RECURSIVE Joined(_)
Joined(ls) == IF ls = <<>> THEN <<>> ELSE Head(ls) \o <<"\n">> \o Joined(Tail(ls))

\* C9: the text save writes is, for the Sections in the order of the document
\* (those with neither keys nor lines too), the header line [name], then the
\* raw lines as they are if the Section has no key, or else one key=value
\* line per key in the order of keysOrder and none of the raw lines, then one
\* blank line.
C9_SaveText ==
  last.op = "save" =>
     /\ last.ret = TRUE
     /\ last.out = Joined(Concat([i \in 1..Len(sections) |->
                                    SectionText(objs[sections[i]])]))

\* save has just written a document with a Section that has a key and a raw
\* line, and a Section that has neither
C9_Witness ==
  /\ last.op = "save"
  /\ \E s \in Range(sections) : objs[s].keysOrder # <<>> /\ objs[s].lines # <<>>
  /\ \E s \in Range(sections) : objs[s].keysOrder = <<>> /\ objs[s].lines = <<>>

\* C10: getKeys(name) returns a snapshot: for a name with no Section the
\* empty sequence, for a name with a Section its key order at the call; and
\* what a sequence returned by getKeys holds is not changed by a later
\* Section.set, Section.delete or line of a load.
C10_GetKeysSnapshot ==
  [][/\ \A name \in SecNames :
           GetKeys({"keys"}, name)
           => Deref(Heap, keysRet)' =
                 IF exists(Heap, name)
                 THEN objs[getSection(Heap, name)].keysOrder ELSE <<>>
     /\ (/\ keysRet.kind # "none"
         /\ \/ \E s \in DOMAIN objs, key \in KeyArgs, value \in ValueArgs :
                  SectionSet({"keys"}, s, key, value)
            \/ \E s \in DOMAIN objs, key \in KeyArgs \cup {<<>>} :
                  SectionDelete({"keys"}, s, key)
            \/ \E line \in SrcLines : LoadLine({"keys"}, 1, line))
        => Deref(Heap, keysRet)' = Deref(Heap, keysRet)]_vars

\* C11: every load call completes and returns true, also when its stream
\* could not be opened or failed after some lines; and the document is then
\* as the lines read before had left it.  As a property of steps: whenever a
\* load stops taking lines, it has returned true and the step has changed no
\* Section and not the sections array.
C11_LoadReturnsTrue ==
  [][(ld[1].pc = "reading" /\ ld'[1].pc # "reading")
       => /\ ld'[1].pc = "idle"
          /\ last'.op = "load"
          /\ last'.ret = TRUE
          /\ sections' = sections
          /\ objs' = objs]_vars

\* C12: getLines(name, remove_comments) returns the lines of the Section in
\* their order less exactly the entries that are "" or "\n", the same for
\* remove_comments true and false; it returns the empty array for a name with
\* no Section; and the call changes neither the lines nor anything else of
\* the document.
C12_GetLines ==
  [][\A name \in SecNames, remove_comments \in BOOLEAN :
        (last'.op = "getLines" /\ GetLines({"ret", "lines"}, name, remove_comments))
        => /\ last'.ret =
                 IF exists(Heap, name)
                 THEN Without(Without(objs[getSection(Heap, name)].lines, <<>>),
                              <<"\n">>)
                 ELSE <<>>
           /\ sections' = sections
           /\ objs' = objs]_vars

\* getLines has just returned the comment line of a Section whose lines are a
\* newline entry and the comment line
C12_Witness ==
  /\ last.op = "getLines"
  /\ last.ret = << <<"#", "c">> >>
  /\ \E s \in Range(sections) : objs[s].lines = << <<"\n">>, <<"#", "c">> >>

\* C13: IniFile.setLines(name, lines) on a name with no Section appends a new
\* Section of that name, without keys, to the end of the document; in both
\* cases the lines of the Section of that name are then exactly the given
\* array, its keysOrder and values are as before, and every other Section and
\* the order of the Sections are unchanged.
C13_SetLinesFrame ==
  [][\A name \in SecNames, lines \in LinesArgs :
        (last'.op = "setLines" /\ SetLines({"ret"}, name, lines))
        => IF exists(Heap, name)
           THEN LET s == getSection(Heap, name)
                IN  /\ sections' = sections
                    /\ objs'[s].lines = lines
                    /\ objs'[s].keysOrder = objs[s].keysOrder
                    /\ objs'[s].values = objs[s].values
                    /\ objs'[s].name = name
                    /\ OthersUnchanged(s)
           ELSE \E n \in DOMAIN objs' \ DOMAIN objs :
                    /\ sections' = Append(sections, n)
                    /\ objs'[n].name = name
                    /\ objs'[n].lines = lines
                    /\ objs'[n].keysOrder = <<>>
                    /\ DOMAIN objs'[n].values = {}
                    /\ DOMAIN objs' = DOMAIN objs \cup {n}
                    /\ \A t \in DOMAIN objs : objs'[t] = objs[t]]_vars

\* setLines has just acted on a document of two Sections, the first with a
\* key and with lines, the second without keys and with other lines
C13_Witness ==
  /\ last.op = "setLines"
  /\ Len(sections) = 2
  /\ objs[sections[1]].keysOrder # <<>>
  /\ objs[sections[1]].lines # <<>>
  /\ objs[sections[2]].keysOrder = <<>>
  /\ objs[sections[2]].lines # <<>>
  /\ objs[sections[2]].lines # objs[sections[1]].lines

\* C14, of the states of a running load: it has a current section exactly
\* when a header line with a closing ']' has come, and the current section is
\* then the Section of the document with the name of the latest such line.
C14_CurrentIsLatestHeader ==
  ld[1].pc = "reading" =>
     IF ld[1].hdr = {} THEN ld[1].cur = Undefined
     ELSE /\ ld[1].cur # Undefined
          /\ \A name \in ld[1].hdr : ld[1].cur = getSection(Heap, name)

\* C14: a header line with a closing ']' makes the Section of its name the
\* current one (the same Section as before for a name the document holds)
\* and changes no Section; a line that is not a header changes at most the
\* current Section, the one the latest header named; a line before the first
\* header, and a '[' line without ']', change no Section and leave the
\* current section what it was.
C14_LinesGoToCurrentSection ==
  [][\A line \in SrcLines :
        LoadLine({"pre"}, 1, line)
        => LET names == HeaderNames(line, ld[1].first)
               c == ld[1].cur
           IN  IF names # {}
               THEN \A name \in names :
                       /\ ld'[1].cur = getSection(Heap, name)'
                       /\ ld'[1].cur # Undefined
                       /\ exists(Heap, name) =>
                             /\ ld'[1].cur = getSection(Heap, name)
                             /\ sections' = sections
                       /\ \A t \in DOMAIN objs : objs'[t] = objs[t]
               ELSE /\ ld'[1].cur = c
                    /\ sections' = sections
                    /\ IF StartsWithBracket(line, ld[1].first) \/ c = Undefined
                       THEN objs' = objs
                       ELSE /\ C14_CurrentIsLatestHeader
                            /\ OthersUnchanged(c)]_vars

\* a load whose latest header named the first of two Sections, after a line
\* gave that Section a key, while the other has no key and no line
C14_Witness ==
  /\ ld[1].pc = "reading"
  /\ ld[1].hdr = {<<"A">>}
  /\ ld[1].hdrs = {<<"A">>, <<"B">>}
  /\ Len(sections) = 2
  /\ sections[1] = ld[1].cur
  /\ objs[sections[1]].keysOrder # <<>>
  /\ objs[sections[2]].keysOrder = <<>>
  /\ objs[sections[2]].lines = <<>>

\* what a line without '=' is to do to the current Section c of a load: the
\* key "" has the value "" and stands once in keysOrder, at its old place if
\* it was there and last if not; the line is not stored, and nothing else
\* changes
EmptyKeyPost(c) ==
  /\ objs'[c].lines = objs[c].lines
  /\ objs'[c].keysOrder = IF <<>> \in Range(objs[c].keysOrder)
                          THEN objs[c].keysOrder
                          ELSE Append(objs[c].keysOrder, <<>>)
  /\ Cardinality({i \in 1..Len(objs'[c].keysOrder) : objs'[c].keysOrder[i] = <<>>}) = 1
  /\ DOMAIN objs'[c].values = DOMAIN objs[c].values \cup {<<>>}
  /\ objs'[c].values[<<>>] = <<>>
  /\ \A k \in DOMAIN objs[c].values \ {<<>>} : objs'[c].values[k] = objs[c].values[k]
  /\ sections' = sections
  /\ OthersUnchanged(c)

\* C15 as stated: during load, a line inside a section that is not empty,
\* does not start with '#', '$', '+' or '*' and holds no '=' is not stored as
\* a raw line but causes Section.set("", ""), and any number of such lines
\* leave exactly one entry for the empty key.
C15_NoEqualsSetsEmptyKey ==
  [][\A line \in SrcLines :
        (/\ last'.op = "line"
         /\ ld[1].cur # Undefined
         /\ line # <<>> /\ line[1] \notin {"#", "$", "+", "*"}
         /\ IndexOf(line, "=") = -1
         /\ LoadLine({"ret"}, 1, line))
        => EmptyKeyPost(ld[1].cur)]_vars

\* C15, amended: the same of a line that does not start with '[' either (a
\* '[' line is a header, or is ignored when it has no ']').
C15_NoEqualsNoBracketSetsEmptyKey ==
  [][\A line \in SrcLines :
        (/\ last'.op = "line"
         /\ ld[1].cur # Undefined
         /\ line # <<>> /\ line[1] \notin {"[", "#", "$", "+", "*"}
         /\ IndexOf(line, "=") = -1
         /\ LoadLine({"ret"}, 1, line))
        => EmptyKeyPost(ld[1].cur)]_vars

\* a line of a load has just left the current Section with the keys "k" and
\* "", the empty key with the empty value, and no raw line
C15_Witness ==
  /\ last.op = "line"
  /\ ld[1].pc = "reading"
  /\ ld[1].cur # Undefined
  /\ objs[ld[1].cur].keysOrder = << <<"k">>, <<>> >>
  /\ objs[ld[1].cur].values[<<>>] = <<>>
  /\ objs[ld[1].cur].lines = <<>>

\* the entries of a that are in the set S, in their order
Among(a, S) == SelectSeq(a, LAMBDA x : x \in S)

KeysBefore(s) == IF s \in DOMAIN ld[1].old THEN ld[1].old[s].obj.keysOrder ELSE <<>>

ValuesBefore(s) == IF s \in DOMAIN ld[1].old THEN ld[1].old[s].obj.values ELSE <<>>

LinesBefore(s) == IF s \in DOMAIN ld[1].old THEN ld[1].old[s].obj.lines ELSE <<>>

\* C17: while a load with keep_current_data runs, and when it returns, no
\* Section the document held is gone or moved, and in every section the
\* source has named: keysOrder is the keysOrder it had, followed by the keys
\* of its key/value lines that it did not have, in the order of the source;
\* every key of those lines has the value of the last of its lines; and every
\* other key has the value it had.
C17_LoadMerges ==
  (ld[1].pc = "reading" /\ ld[1].keep) =>
     /\ \A s \in DOMAIN ld[1].old :
           s \in Range(sections) /\ ArrayIndexOf(sections, s) = ld[1].old[s].pos
     /\ \A name \in ld[1].hdrs :
           LET s == getSection(Heap, name)
               src == SeenOf(ld[1].seen, name)
           IN  /\ s # Undefined
               /\ objs[s].keysOrder =
                     KeysBefore(s)
                       \o SelectSeq(src.keys, LAMBDA k : k \notin Range(KeysBefore(s)))
               /\ DOMAIN objs[s].values = Range(KeysBefore(s)) \cup Range(src.keys)
               /\ \A k \in Range(src.keys) : objs[s].values[k] = src.vals[k]
               /\ \A k \in Range(KeysBefore(s)) \ Range(src.keys) :
                     objs[s].values[k] = ValuesBefore(s)[k]

\* a load with keep_current_data has read two lines of the key k, with
\* different values, and a line of a new key, for a Section that had k with
\* a third value
C17_Witness ==
  /\ ld[1].pc = "reading"
  /\ ld[1].keep
  /\ \E s \in DOMAIN ld[1].old :
        /\ ld[1].old[s].obj.keysOrder = << <<"k">> >>
        /\ ld[1].old[s].obj.values[<<"k">>] = <<"v">>
        /\ objs[s].keysOrder = << <<"k">>, <<>> >>
        /\ objs[s].values[<<"k">>] = <<"w">>
        /\ ld[1].seen[objs[s].name].keys = << <<>>, <<"k">> >>

RawOnly(s) ==
  /\ objs[s].keysOrder = <<>>
  /\ \A i \in 1..Len(objs[s].lines) :
        objs[s].lines[i] # <<>> /\ "\n" \notin Range(objs[s].lines[i])

\* save and load into an empty document give the Section back: a Section of
\* its name, without keys, with the same getLines
RawComesBack(s) ==
  LET name == objs[s].name
      t == getSection(Reloaded, name)
  IN  /\ t # Undefined
      /\ Reloaded.objs[t].keysOrder = <<>>
      /\ getLines(Reloaded, name, FALSE) = getLines(Heap, name, FALSE)

C20_OverlappingLoads ==
  /\ \A i, j \in 1..Len(sections) :
        objs[sections[i]].name = objs[sections[j]].name => i = j
  /\ \A s \in DOMAIN objs :
        /\ \A i, j \in 1..Len(objs[s].keysOrder) :
              objs[s].keysOrder[i] = objs[s].keysOrder[j] => i = j
        /\ {objs[s].keysOrder[i] : i \in 1..Len(objs[s].keysOrder)}
             = DOMAIN objs[s].values

\* two loads run, both past their first line and both in the same Section,
\* which has two keys, while the document has a second Section
C20_Witness ==
  /\ ld[1].pc = "reading" /\ ld[2].pc = "reading"
  /\ ~ld[1].first /\ ~ld[2].first
  /\ ld[1].cur # Undefined
  /\ ld[2].cur = ld[1].cur
  /\ Len(objs[ld[1].cur].keysOrder) = 2
  /\ Len(sections) = 2

====
